---- MODULE Spec2Model ----
(***************************************************************************)
(* Model of the legal-demystifier backend core:                            *)
(*   utils.safe_parse_json, risk_engine.rule_score_for_clause,             *)
(*   risk_engine.combined_score and VertexRAGClient.summarize_document.    *)
(*                                                                         *)
(* Texts are sequences of one-character strings.  Python indices are       *)
(* 0-based and slices half-open; the operators below keep that convention  *)
(* so that the "+ 1" of the source stays visible.                          *)
(***************************************************************************)
EXTENDS Integers, Sequences, FiniteSets, TLC

VARIABLES pc, text, parsed, clause, llm_score, rule_score, w_llm, score, upstream, path, out

vars == <<pc, text, parsed, clause, llm_score, rule_score, w_llm, score, upstream, path, out>>

(***************************************************************************)
(* Bounds of the model.                                                    *)
(***************************************************************************)
MaxParts == 3
MaxWords == 2
MaxOver == 2
MaxClauses == 2

(***************************************************************************)
(* Python values as json.loads produces them.  One record shape for every  *)
(* kind; the fields a kind does not use hold a fixed filler.               *)
(***************************************************************************)
JV(k, b, n, s, ks, its) ==
    [kind |-> k, b |-> b, n |-> n, s |-> s, keys |-> ks, items |-> its]

None == JV("null", FALSE, 0, <<>>, <<>>, <<>>)
JBool(b) == JV("bool", b, 0, <<>>, <<>>, <<>>)
JNum(n) == JV("num", FALSE, n, <<>>, <<>>, <<>>)
JNaN == JV("nan", FALSE, 0, <<>>, <<>>, <<>>)
JStr(s) == JV("str", FALSE, 0, s, <<>>, <<>>)
JArr(its) == JV("arr", FALSE, 0, <<>>, <<>>, its)
JObj(ks, its) == JV("obj", FALSE, 0, <<>>, ks, its)

\* The result of a call: a returned value, or an exception leaving the call.
Return(v) == [exc |-> FALSE, val |-> v]
Raise == [exc |-> TRUE, val |-> None]

(***************************************************************************)
(* Python floats: fixed-point numbers counting tenths, and NaN.  Every     *)
(* number the model feeds in is a whole number, so one decimal digit       *)
(* holds each product with a weight given in tenths exactly.               *)
(***************************************************************************)
Num(tenths) == [nan |-> FALSE, v |-> tenths]
NaN == [nan |-> TRUE, v |-> 0]
FromInt(n) == Num(10 * n)

\* comparisons with NaN are false
FLt(a, b) == ~a.nan /\ ~b.nan /\ a.v < b.v
FGt(a, b) == ~a.nan /\ ~b.nan /\ a.v > b.v
FGe(a, b) == ~a.nan /\ ~b.nan /\ a.v >= b.v

FAdd(a, b) == IF a.nan \/ b.nan THEN NaN ELSE Num(a.v + b.v)
\* the product of a weight counted in tenths with a float
FScale(w, a) == IF a.nan THEN NaN ELSE Num((w * a.v) \div 10)

\* the builtins min(a, b) and max(a, b): the first argument unless the
\* second is smaller (larger)
pymin(a, b) == IF FLt(b, a) THEN b ELSE a
pymax(a, b) == IF FGt(b, a) THEN b ELSE a

(***************************************************************************)
(* json.loads, character by character (json.decoder / json.scanner).       *)
(***************************************************************************)
WHITESPACE == {" ", "\t", "\n", "\r"}
Digits == <<"0", "1", "2", "3", "4", "5", "6", "7", "8", "9">>
IsDigit(c) == \E d \in 1..10 : Digits[d] = c
DigitVal(c) == (CHOOSE d \in 1..10 : Digits[d] = c) - 1

\* A scan: ok, the 1-based index after what was scanned, and the value.
Scanned(i, v) == [ok |-> TRUE, next |-> i, val |-> v]
NoScan == [ok |-> FALSE, next |-> 0, val |-> None]

RECURSIVE SkipWs(_, _)
SkipWs(s, i) ==
    IF i <= Len(s) /\ s[i] \in WHITESPACE THEN SkipWs(s, i + 1) ELSE i

StartsWith(s, i, lit) ==
    /\ i + Len(lit) - 1 <= Len(s)
    /\ SubSeq(s, i, i + Len(lit) - 1) = lit

\* py_scanstring from the character after the opening quote; the alphabet of
\* the model holds no backslash and no control character.
RECURSIVE ClosingQuote(_, _)
ClosingQuote(s, i) ==
    IF i > Len(s) THEN 0
    ELSE IF s[i] = "\"" THEN i
    ELSE ClosingQuote(s, i + 1)

ScanString(s, i) ==
    LET q == ClosingQuote(s, i + 1)
    IN  IF q = 0 THEN NoScan ELSE Scanned(q + 1, JStr(SubSeq(s, i + 1, q - 1)))

\* NUMBER_RE, integer part: -?(0|[1-9][0-9]*); no fraction or exponent
\* character is in the alphabet of the model.
RECURSIVE ScanDigits(_, _, _)
ScanDigits(s, i, acc) ==
    IF i <= Len(s) /\ IsDigit(s[i])
    THEN ScanDigits(s, i + 1, 10 * acc + DigitVal(s[i]))
    ELSE [next |-> i, n |-> acc]

ScanNumber(s, i) ==
    LET neg == s[i] = "-"
        j == IF neg THEN i + 1 ELSE i
    IN  IF j > Len(s) \/ ~IsDigit(s[j]) THEN NoScan
        ELSE IF s[j] = "0" THEN Scanned(j + 1, JNum(0))
        ELSE LET d == ScanDigits(s, j, 0)
             IN  Scanned(d.next, JNum(IF neg THEN 0 - d.n ELSE d.n))

\* dict[key] = value: the last value of a repeated key wins, at the position
\* of the key's first occurrence.
KeyIndex(ks, k) ==
    IF \E i \in 1..Len(ks) : ks[i] = k
    THEN CHOOSE i \in 1..Len(ks) : ks[i] = k
    ELSE 0

DictPut(o, k, v) ==
    LET i == KeyIndex(o.keys, k)
    IN  IF i = 0 THEN JObj(Append(o.keys, k), Append(o.items, v))
        ELSE JObj(o.keys, [o.items EXCEPT ![i] = v])

RECURSIVE ScanOnce(_, _), ScanMembers(_, _, _), ScanElements(_, _, _)

\* JSONObject's loop; i is where a key's opening quote must stand.
ScanMembers(s, i, o) ==
    IF i > Len(s) \/ s[i] # "\"" THEN NoScan
    ELSE LET k == ScanString(s, i)
         IN  IF ~k.ok THEN NoScan
             ELSE LET c == SkipWs(s, k.next)
                  IN  IF c > Len(s) \/ s[c] # ":" THEN NoScan
                      ELSE LET v == ScanOnce(s, SkipWs(s, c + 1))
                           IN  IF ~v.ok THEN NoScan
                               ELSE LET d == SkipWs(s, v.next)
                                        o2 == DictPut(o, k.val.s, v.val)
                                    IN  IF d > Len(s) THEN NoScan
                                        ELSE IF s[d] = "}" THEN Scanned(d + 1, o2)
                                        ELSE IF s[d] = ","
                                        THEN ScanMembers(s, SkipWs(s, d + 1), o2)
                                        ELSE NoScan

\* JSONArray's loop; i is where an element must start.
ScanElements(s, i, its) ==
    LET v == ScanOnce(s, i)
    IN  IF ~v.ok THEN NoScan
        ELSE LET d == SkipWs(s, v.next)
                 its2 == Append(its, v.val)
             IN  IF d > Len(s) THEN NoScan
                 ELSE IF s[d] = "]" THEN Scanned(d + 1, JArr(its2))
                 ELSE IF s[d] = "," THEN ScanElements(s, SkipWs(s, d + 1), its2)
                 ELSE NoScan

\* scanner.py_make_scanner._scan_once
ScanOnce(s, i) ==
    IF i > Len(s) THEN NoScan
    ELSE IF s[i] = "\"" THEN ScanString(s, i)
    ELSE IF s[i] = "{"
    THEN LET j == SkipWs(s, i + 1)
         IN  IF j <= Len(s) /\ s[j] = "}" THEN Scanned(j + 1, JObj(<<>>, <<>>))
             ELSE ScanMembers(s, j, JObj(<<>>, <<>>))
    ELSE IF s[i] = "["
    THEN LET j == SkipWs(s, i + 1)
         IN  IF j <= Len(s) /\ s[j] = "]" THEN Scanned(j + 1, JArr(<<>>))
             ELSE ScanElements(s, j, <<>>)
    ELSE IF StartsWith(s, i, <<"n", "u", "l", "l">>) THEN Scanned(i + 4, None)
    ELSE IF StartsWith(s, i, <<"t", "r", "u", "e">>) THEN Scanned(i + 4, JBool(TRUE))
    ELSE IF StartsWith(s, i, <<"f", "a", "l", "s", "e">>) THEN Scanned(i + 5, JBool(FALSE))
    ELSE IF StartsWith(s, i, <<"N", "a", "N">>) THEN Scanned(i + 3, JNaN)
    ELSE IF s[i] = "-" \/ IsDigit(s[i]) THEN ScanNumber(s, i)
    ELSE NoScan

\* json.loads: JSONDecoder.decode; raises unless one value spans the text.
json_loads(s) ==
    LET v == ScanOnce(s, SkipWs(s, 1))
    IN  IF v.ok /\ SkipWs(s, v.next) = Len(s) + 1 THEN Return(v.val) ELSE Raise

(***************************************************************************)
(* str.index / str.rindex (0-based, ValueError when absent) and slicing.   *)
(***************************************************************************)
RECURSIVE IndexFrom(_, _, _)
IndexFrom(s, c, i) ==
    IF i > Len(s) THEN Raise
    ELSE IF s[i] = c THEN [exc |-> FALSE, val |-> i - 1]
    ELSE IndexFrom(s, c, i + 1)

index(s, c) == IndexFrom(s, c, 1)

RECURSIVE RIndexFrom(_, _, _)
RIndexFrom(s, c, i) ==
    IF i < 1 THEN Raise
    ELSE IF s[i] = c THEN [exc |-> FALSE, val |-> i - 1]
    ELSE RIndexFrom(s, c, i - 1)

\* faulty variant: the first closing brace instead of the last
rindex_first(s, c) == IndexFrom(s, c, 1)

rindex(s, c) == RIndexFrom(s, c, Len(s))

\* s[a:b] for 0 <= a, 0 <= b
Slice(s, a, b) == SubSeq(s, a + 1, IF b > Len(s) THEN Len(s) ELSE b)

(***************************************************************************)
(* utils.safe_parse_json                                                   *)
(***************************************************************************)
\* the inner try block: index, rindex and the second json.loads may raise
BraceFallback(t) ==
    LET start == index(t, "{")
        end == rindex(t, "}")
    IN  IF start.exc \/ end.exc THEN Raise
        ELSE json_loads(Slice(t, start.val, end.val + 1))

\* faulty variant: the fallback without its own try/except
safe_parse_json_unguarded(t) ==
    LET whole == json_loads(t)
    IN  IF ~whole.exc THEN Return(whole.val) ELSE BraceFallback(t)

safe_parse_json(t) ==
    LET whole == json_loads(t)
    IN  IF ~whole.exc THEN Return(whole.val)
        ELSE LET sub == BraceFallback(t)
             IN  IF ~sub.exc THEN Return(sub.val) ELSE Return(None)

(***************************************************************************)
(* Input texts of the extractor: up to MaxParts fragments, joined.         *)
(***************************************************************************)
ObjA1 == <<"{", "\"", "a", "\"", ":", "1", "}">>

Fragments ==
    { <<"{">>, <<"}">>, <<"\"", "a", "\"", ":", "1">>, ObjA1,
      <<"x">>, <<" ">>, <<"[", "1", "]">>, <<"n", "u", "l", "l">>, <<",">> }

RECURSIVE Joined(_)
Joined(n) ==
    IF n = 0 THEN {<<>>}
    ELSE Joined(n - 1) \cup {t \o f : t \in Joined(n - 1), f \in Fragments}

InitExtract ==
    /\ pc = "call"
    /\ text \in Joined(MaxParts)
    /\ parsed = Return(None)
    /\ clause = <<>>
    /\ llm_score = Num(0)
    /\ rule_score = Num(0)
    /\ w_llm = <<>>
    /\ score = Num(0)
    /\ upstream = "ok"
    /\ path = "none"
    /\ out = <<>>

\* one call of safe_parse_json(text)
Extract ==
    /\ pc = "call"
    /\ parsed' = safe_parse_json(text)
    /\ pc' = "done"
    /\ UNCHANGED <<text, clause, llm_score, rule_score, w_llm, score, upstream, path, out>>

NextExtract == Extract

SpecExtract == InitExtract /\ [][NextExtract]_vars


(***************************************************************************)
(* risk_engine.RISK_KEYWORDS.  Each pattern is written as the finite set   *)
(* of literal texts its regular expression matches, in list order:         *)
(*   high:   penalt(?:y|ies), indemnif, liabilit, arbitration, waiv,       *)
(*           class action waiver                                           *)
(*   medium: early termination fee, renewal, auto-?renew, late fee,        *)
(*           governing law                                                 *)
(***************************************************************************)
RISK_KEYWORDS ==
    [ high |-> <<
        { <<"p", "e", "n", "a", "l", "t", "y">>,
          <<"p", "e", "n", "a", "l", "t", "i", "e", "s">> },
        { <<"i", "n", "d", "e", "m", "n", "i", "f">> },
        { <<"l", "i", "a", "b", "i", "l", "i", "t">> },
        { <<"a", "r", "b", "i", "t", "r", "a", "t", "i", "o", "n">> },
        { <<"w", "a", "i", "v">> },
        { <<"c", "l", "a", "s", "s", " ", "a", "c", "t", "i", "o", "n", " ", "w", "a", "i", "v", "e", "r">> } >>,
      medium |-> <<
        { <<"e", "a", "r", "l", "y", " ", "t", "e", "r", "m", "i", "n", "a", "t", "i", "o", "n", " ", "f", "e", "e">> },
        { <<"r", "e", "n", "e", "w", "a", "l">> },
        { <<"a", "u", "t", "o", "-", "r", "e", "n", "e", "w">>,
          <<"a", "u", "t", "o", "r", "e", "n", "e", "w">> },
        { <<"l", "a", "t", "e", " ", "f", "e", "e">> },
        { <<"g", "o", "v", "e", "r", "n", "i", "n", "g", " ", "l", "a", "w">> } >> ]

\* str.lower on the letters of the alphabet
UpperCase == <<"A", "B", "C", "D", "E", "F", "G", "H", "I", "J", "K", "L", "M",
               "N", "O", "P", "Q", "R", "S", "T", "U", "V", "W", "X", "Y", "Z">>
LowerCase == <<"a", "b", "c", "d", "e", "f", "g", "h", "i", "j", "k", "l", "m",
               "n", "o", "p", "q", "r", "s", "t", "u", "v", "w", "x", "y", "z">>

LowerChar(c) ==
    IF \E i \in 1..26 : UpperCase[i] = c
    THEN LowerCase[CHOOSE i \in 1..26 : UpperCase[i] = c]
    ELSE c

lower(t) == [i \in 1..Len(t) |-> LowerChar(t[i])]

\* re.search(kw, t) for a pattern given as its set of literal matches
Contains(t, lit) ==
    \E i \in 1..(Len(t) - Len(lit) + 1) : SubSeq(t, i, i + Len(lit) - 1) = lit

re_search(kw, t) == \E lit \in kw : Contains(t, lit)

\* "for kw in kws: if re.search(kw, t): score += pts"
RECURSIVE AddMatches(_, _, _, _)
AddMatches(kws, t, pts, acc) ==
    IF kws = <<>> THEN acc
    ELSE AddMatches(Tail(kws), t, pts,
                    IF re_search(Head(kws), t) THEN acc + pts ELSE acc)

\* faulty variant: the text is matched without lower-casing it
ScoreWithoutLower(keywords, txt) ==
    LET afterHigh == AddMatches(keywords.high, txt, 40, 0)
        afterMedium == AddMatches(keywords.medium, txt, 15, afterHigh)
    IN  IF 100 < afterMedium THEN 100 ELSE afterMedium

\* the body of rule_score_for_clause over a keyword table
ScoreWith(keywords, txt) ==
    LET t == lower(txt)
        afterHigh == AddMatches(keywords.high, t, 40, 0)
        afterMedium == AddMatches(keywords.medium, t, 15, afterHigh)
    IN  IF 100 < afterMedium THEN 100 ELSE afterMedium

\* the score is a float
rule_score_for_clause(txt) == FromInt(ScoreWith(RISK_KEYWORDS, txt))

(***************************************************************************)
(* risk_engine.combined_score; w_llm is counted in tenths.                 *)
(***************************************************************************)
DefaultWeight == 6

\* faulty variant: no max(0.0, ...)
combined_score_unfloored(llm, rule, w) ==
    pymin(FromInt(100), FAdd(FScale(w, llm), FScale(10 - w, rule)))

\* faulty variant: the rule score is left out of the blend
combined_score_llm_only(llm, rule, w) ==
    pymax(Num(0), pymin(FromInt(100), llm))

combined_score(llm, rule, w) ==
    pymax(Num(0), pymin(FromInt(100), FAdd(FScale(w, llm), FScale(10 - w, rule))))

\* the call as written: the weight argument may be omitted
CallCombinedScore(llm, rule, args) ==
    combined_score(llm, rule, IF args = <<>> THEN DefaultWeight ELSE args[1])

(***************************************************************************)
(* Clause texts: up to MaxWords of these pieces, joined.                   *)
(***************************************************************************)
Words ==
    { <<"P", "e", "n", "a", "l", "t", "y", " ">>,
      <<"p", "e", "n", "a", "l", "t", "i", "e", "s">>,
      <<"I", "N", "D", "E", "M", "N", "I", "F", "Y", " ">>,
      <<"c", "l", "a", "s", "s", " ", "a", "c", "t", "i", "o", "n", " ", "w", "a", "i", "v", "e", "r">>,
      <<"A", "r", "b", "i", "t", "r", "a", "t", "i", "o", "n">>,
      <<"a", "u", "t", "o", "-", "r", "e", "n", "e", "w", "a", "l">>,
      <<"l", "a", "t", "e", " ", "f", "e", "e">>,
      <<" ", "w", "e", "a", "t", "h", "e", "r", " ">>,
      <<"p", "e", "n", "a", "l", "t">>,
      <<"y">>,
      <<"L", "i", "a", "b", "i", "l", "i", "t", "y">>,
      <<"g", "o", "v", "e", "r", "n", "i", "n", "g", " ", "l", "a", "w">> }

RECURSIVE ClauseTexts(_)
ClauseTexts(n) ==
    IF n = 0 THEN {<<>>}
    ELSE ClauseTexts(n - 1) \cup {t \o w : t \in ClauseTexts(n - 1), w \in Words}

InitRule ==
    /\ pc = "call"
    /\ clause \in ClauseTexts(MaxWords)
    /\ llm_score \in {FromInt(0), FromInt(100)}
    /\ text = <<>>
    /\ parsed = Return(None)
    /\ rule_score = Num(0)
    /\ w_llm = <<>>
    /\ score = Num(0)
    /\ upstream = "ok"
    /\ path = "none"
    /\ out = <<>>

\* one call of rule_score_for_clause(clause)
RuleScore ==
    /\ pc = "call"
    /\ rule_score' = rule_score_for_clause(clause)
    /\ pc' = "done"
    /\ UNCHANGED <<text, parsed, clause, llm_score, w_llm, score, upstream, path, out>>

NextRule == RuleScore

SpecRule == InitRule /\ [][NextRule]_vars

(***************************************************************************)
(* Calls of combined_score: whole-number scores from MaxOver tens below 0  *)
(* to MaxOver tens above 100, NaN as model score, weights from MaxOver     *)
(* tenths below 0 to MaxOver tenths above 1, or no weight argument.        *)
(***************************************************************************)
Scores == {FromInt(10 * k) : k \in (0 - MaxOver)..(10 + MaxOver)}
Weights == {<<>>} \cup {<<k>> : k \in (0 - MaxOver)..(10 + MaxOver)}

InitCombine ==
    /\ pc = "call"
    /\ llm_score \in Scores \cup {NaN}
    /\ rule_score \in Scores
    /\ w_llm \in Weights
    /\ score = Num(0)
    /\ text = <<>>
    /\ parsed = Return(None)
    /\ clause = <<>>
    /\ upstream = "ok"
    /\ path = "none"
    /\ out = <<>>

\* one call of combined_score(llm_score, rule_score[, w_llm])
Combine ==
    /\ pc = "call"
    /\ score' = CallCombinedScore(llm_score, rule_score, w_llm)
    /\ pc' = "done"
    /\ UNCHANGED <<text, parsed, clause, llm_score, rule_score, w_llm, upstream, path, out>>

NextCombine == Combine

SpecCombine == InitCombine /\ [][NextCombine]_vars

(***************************************************************************)
(* Python operations summarize_document applies to the parsed value.       *)
(***************************************************************************)
\* bool(v), as "if not parsed" decides it
Truthy(v) ==
    CASE v.kind = "null" -> FALSE
      [] v.kind = "bool" -> v.b
      [] v.kind = "num" -> v.n # 0
      [] v.kind = "nan" -> TRUE
      [] v.kind = "str" -> v.s # <<>>
      [] v.kind = "arr" -> v.items # <<>>
      [] v.kind = "obj" -> v.keys # <<>>

\* v.get(key, default): AttributeError unless v is a dict
dict_get(v, key, default) ==
    IF v.kind # "obj" THEN Raise
    ELSE LET i == KeyIndex(v.keys, key)
         IN  Return(IF i = 0 THEN default ELSE v.items[i])

\* "for c in v": TypeError unless v is iterable; a dict yields its keys and
\* a str its characters
iterate(v) ==
    CASE v.kind = "arr" -> [exc |-> FALSE, items |-> v.items]
      [] v.kind = "obj" -> [exc |-> FALSE, items |-> [i \in 1..Len(v.keys) |-> JStr(v.keys[i])]]
      [] v.kind = "str" -> [exc |-> FALSE, items |-> [i \in 1..Len(v.s) |-> JStr(<<v.s[i]>>)]]
      [] OTHER -> [exc |-> TRUE, items |-> <<>>]

\* float(s) for a str: an optional sign, then digits or "nan" in any case;
\* ValueError otherwise.  (No other spelling float accepts is among the
\* strings of the model.)
FloatOfStr(s) ==
    LET body == IF s # <<>> /\ s[1] \in {"-", "+"} THEN Tail(s) ELSE s
        neg == s # <<>> /\ s[1] = "-"
    IN  IF body # <<>> /\ \A i \in 1..Len(body) : IsDigit(body[i])
        THEN LET d == ScanDigits(body, 1, 0)
             IN  [exc |-> FALSE, f |-> FromInt(IF neg THEN 0 - d.n ELSE d.n)]
        ELSE IF lower(body) = <<"n", "a", "n">> THEN [exc |-> FALSE, f |-> NaN]
        ELSE [exc |-> TRUE, f |-> NaN]

\* float(v): TypeError for None, a list or a dict
pyfloat(v) ==
    CASE v.kind = "num" -> [exc |-> FALSE, f |-> FromInt(v.n)]
      [] v.kind = "nan" -> [exc |-> FALSE, f |-> NaN]
      [] v.kind = "bool" -> [exc |-> FALSE, f |-> FromInt(IF v.b THEN 1 ELSE 0)]
      [] v.kind = "str" -> FloatOfStr(v.s)
      [] OTHER -> [exc |-> TRUE, f |-> NaN]

K_clauses == <<"c", "l", "a", "u", "s", "e", "s">>
K_llm_score == <<"l", "l", "m", "_", "s", "c", "o", "r", "e">>
K_provenance == <<"p", "r", "o", "v", "e", "n", "a", "n", "c", "e">>
K_original == <<"o", "r", "i", "g", "i", "n", "a", "l">>
K_simplified == <<"s", "i", "m", "p", "l", "i", "f", "i", "e", "d">>
K_title == <<"t", "i", "t", "l", "e">>
K_summary == <<"s", "u", "m", "m", "a", "r", "y">>
K_overall_risk_score == <<"o", "v", "e", "r", "a", "l", "l", "_", "r", "i", "s", "k", "_", "s", "c", "o", "r", "e">>

(***************************************************************************)
(* VertexRAGClient.summarize_document, lines 133-155: the conversion of    *)
(* the model's clauses.                                                    *)
(***************************************************************************)
\* faulty variant: the bands open at their lower bound
risk_label_strict(llm) ==
    IF FGt(llm, FromInt(66)) THEN "high"
    ELSE IF FGt(llm, FromInt(33)) THEN "medium"
    ELSE "low"

\* "high" if llm_score >= 66 else "medium" if llm_score >= 33 else "low"
risk_label(llm) ==
    IF FGe(llm, FromInt(66)) THEN "high"
    ELSE IF FGe(llm, FromInt(33)) THEN "medium"
    ELSE "low"

\* float(c.get("llm_score", 50)) if c.get("llm_score") is not None else 50.0
clause_llm_score(c) ==
    LET probe == dict_get(c, K_llm_score, None)
    IN  IF probe.exc THEN [exc |-> TRUE, f |-> NaN]
        ELSE IF probe.val # None
        THEN pyfloat(dict_get(c, K_llm_score, JNum(50)).val)
        ELSE [exc |-> FALSE, f |-> FromInt(50)]

\* the body of the for loop: the record appended to clauses_out
NoClause ==
    [original |-> None, simplified |-> None, risk |-> "low", score |-> NaN,
     provenance |-> None]

convert_clause(c) ==
    LET llm == clause_llm_score(c)
    IN  IF llm.exc THEN [exc |-> TRUE, rec |-> NoClause]
        ELSE [exc |-> FALSE,
              rec |-> [original |-> dict_get(c, K_original, JStr(<<>>)).val,
                       simplified |-> dict_get(c, K_simplified, JStr(<<>>)).val,
                       risk |-> risk_label(llm.f),
                       score |-> llm.f,
                       provenance |-> dict_get(c, K_provenance, JArr(<<>>)).val]]

RECURSIVE convert_clauses(_, _)
convert_clauses(cs, acc) ==
    IF cs = <<>> THEN [exc |-> FALSE, clauses |-> acc]
    ELSE LET r == convert_clause(Head(cs))
         IN  IF r.exc THEN [exc |-> TRUE, clauses |-> <<>>]
             ELSE convert_clauses(Tail(cs), Append(acc, r.rec))

Summary(title, summary, overall, name, clauses) ==
    [title |-> title, summary |-> summary, overall_risk_score |-> overall,
     rag_corpus_name |-> name, clauses |-> clauses]

NoSummary == [exc |-> TRUE, out |-> <<>>]

\* lines 134-155 for a truthy parsed value p
convert(p, name) ==
    LET got == dict_get(p, K_clauses, JArr(<<>>))
    IN  IF got.exc THEN NoSummary
        ELSE LET it == iterate(got.val)
             IN  IF it.exc THEN NoSummary
                 ELSE LET cl == convert_clauses(it.items, <<>>)
                          overall == pyfloat(dict_get(p, K_overall_risk_score, JNum(50)).val)
                      IN  IF cl.exc \/ overall.exc THEN NoSummary
                          ELSE [exc |-> FALSE,
                                out |-> Summary(dict_get(p, K_title, None).val,
                                                dict_get(p, K_summary, JStr(<<>>)).val,
                                                overall.f, name, cl.clauses)]

\* lines 122-131 and 159-165: the two records built without the model's JSON
fallback_summary(retrieved, name) ==
    Summary(None,
            IF retrieved # <<>> THEN JStr(retrieved) ELSE JStr(<<"Summary unavailable">>),
            FromInt(50), name, <<>>)

failed_summary(name) ==
    Summary(None, JStr(<<"Failed to summarize document">>), FromInt(50), name, <<>>)

(***************************************************************************)
(* Texts the model may return: a summary object of up to MaxClauses        *)
(* clauses, bare or wrapped in prose, and texts that hold no such object.  *)
(***************************************************************************)
Quoted(s) == <<"\"">> \o s \o <<"\"">>
Member(k, v) == Quoted(k) \o <<":">> \o v

\* how a clause may spell its llm_score; <<>> leaves the key out
LlmTexts ==
    { <<>>, <<"n", "u", "l", "l">>, <<"1", "5", "0">>, <<"-", "2", "0">>, <<"6", "6">>, <<"6", "5">>, <<"3", "3">>, <<"3", "2">>, <<"N", "a", "N">>,
      Quoted(<<"7", "5">>), Quoted(<<"h", "i", "g", "h">>) }

Originals == << <<"p", "e", "n", "a", "l", "t", "y">>, <<"w", "e", "a", "t", "h", "e", "r">>, <<"l", "a", "t", "e", " ", "f", "e", "e">> >>

ClauseText(i, x) ==
    <<"{">> \o Member(K_original, Quoted(Originals[((i - 1) % 3) + 1]))
    \o (IF x = <<>> THEN <<>> ELSE <<",">> \o Member(K_llm_score, x))
    \o <<"}">>

RECURSIVE ClauseList(_, _)
ClauseList(xs, i) ==
    IF i > Len(xs) THEN <<>>
    ELSE (IF i > 1 THEN <<",", " ">> ELSE <<>>) \o ClauseText(i, xs[i]) \o ClauseList(xs, i + 1)

\* how the document may spell its overall_risk_score; <<>> leaves the key out
OverallTexts == { <<>>, <<"7", "0">>, <<"n", "u", "l", "l">> }

DocText(o, xs) ==
    <<"{">> \o Member(K_summary, Quoted(<<"S">>)) \o <<",">>
    \o (IF o = <<>> THEN <<>> ELSE Member(K_overall_risk_score, o) \o <<",">>)
    \o Member(K_clauses, <<"[">> \o ClauseList(xs, 1) \o <<"]">>) \o <<"}">>

Wrapped(t) == <<"S", "u", "r", "e", ":", " ">> \o t \o <<" ", "o", "k">>

RECURSIVE LlmLists(_)
LlmLists(n) ==
    IF n = 0 THEN {<<>>}
    ELSE LlmLists(n - 1) \cup {Append(xs, x) : xs \in LlmLists(n - 1), x \in LlmTexts}

OddResponses ==
    { <<>>, <<"n", "o", " ", "j", "s", "o", "n">>, <<"n", "u", "l", "l">>, <<"[", "1", "]">>, <<"0">>, <<"{", "}">>, <<"{", "\"", "a", "\"", ":", "1", "}">>,
      <<"{">> \o Member(K_clauses, <<"n", "u", "l", "l">>) \o <<"}">>,
      <<"{">> \o Member(K_clauses, <<"[", "\"", "x", "\"", "]">>) \o <<"}">> }

Responses ==
    OddResponses
    \cup {DocText(o, xs) : o \in OverallTexts, xs \in LlmLists(MaxClauses)}
    \cup {Wrapped(DocText(<<"7", "0">>, xs)) : xs \in LlmLists(MaxClauses)}

CorpusName == <<"corpus">>

(***************************************************************************)
(* summarize_document as a process: pc is its position.                    *)
(***************************************************************************)
InitSummarize ==
    /\ pc = "start"
    /\ text = <<>>
    /\ parsed = Return(None)
    /\ upstream = "ok"
    /\ path = "none"
    /\ out = <<>>
    /\ clause = <<>>
    /\ llm_score = Num(0)
    /\ rule_score = Num(0)
    /\ w_llm = <<>>
    /\ score = Num(0)

\* lines 89-111: building the tool or the model, or generate_content, raises
GenerateRaises ==
    /\ pc = "start"
    /\ upstream' = "generate_raised"
    /\ pc' = "except"
    /\ UNCHANGED <<text, parsed, clause, llm_score, rule_score, w_llm, score, path, out>>

\* lines 89-111: text = response.text or ""
GenerateReturns ==
    /\ pc = "start"
    /\ text' \in Responses
    /\ pc' = "generated"
    /\ UNCHANGED <<parsed, clause, llm_score, rule_score, w_llm, score, upstream, path, out>>

\* line 112: parsed = safe_parse_json(text)
ParseResponse ==
    /\ pc = "generated"
    /\ parsed' = safe_parse_json(text)
    /\ pc' = IF parsed'.exc THEN "except" ELSE "parsed"
    /\ UNCHANGED <<text, clause, llm_score, rule_score, w_llm, score, upstream, path, out>>

\* lines 113-120: "if not parsed", and rag.retrieval_query raises
FallbackRaises ==
    /\ pc = "parsed"
    /\ ~Truthy(parsed.val)
    /\ upstream' = "retrieval_raised"
    /\ pc' = "except"
    /\ UNCHANGED <<text, parsed, clause, llm_score, rule_score, w_llm, score, path, out>>

\* lines 113-131: "if not parsed", and the fallback record is returned
FallbackReturns ==
    /\ pc = "parsed"
    /\ ~Truthy(parsed.val)
    /\ \E retrieved \in {<<>>, <<"retrieved text">>} :
          out' = fallback_summary(retrieved, CorpusName)
    /\ path' = "fallback"
    /\ pc' = "done"
    /\ UNCHANGED <<text, parsed, clause, llm_score, rule_score, w_llm, score, upstream>>

\* lines 133-155: the clauses are converted and the summary returned, or
\* the conversion raises
Convert ==
    /\ pc = "parsed"
    /\ Truthy(parsed.val)
    /\ LET r == convert(parsed.val, CorpusName)
       IN  IF r.exc
           THEN /\ pc' = "except"
                /\ UNCHANGED <<out, path>>
           ELSE /\ out' = r.out
                /\ path' = "normal"
                /\ pc' = "done"
    /\ UNCHANGED <<text, parsed, clause, llm_score, rule_score, w_llm, score, upstream>>

\* lines 157-165: except Exception
Except ==
    /\ pc = "except"
    /\ out' = failed_summary(CorpusName)
    /\ path' = "except"
    /\ pc' = "done"
    /\ UNCHANGED <<text, parsed, clause, llm_score, rule_score, w_llm, score, upstream>>

NextSummarize ==
    \/ GenerateRaises
    \/ GenerateReturns
    \/ ParseResponse
    \/ FallbackRaises
    \/ FallbackReturns
    \/ Convert
    \/ Except

SpecSummarize == InitSummarize /\ [][NextSummarize]_vars

(***************************************************************************)
(*                               Properties                                *)
(***************************************************************************)

\* C1: every call of the extractor returns a JSON object or Failure (None),
\* never another kind of value.
C1_TwoOutcomes ==
    pc = "done" => ~parsed.exc /\ parsed.val.kind \in {"obj", "null"}

\* the value of the text ObjA1
ObjA1Value == JObj(<< <<"a">> >>, <<JNum(1)>>)

OpenBraces == {i \in 1..Len(text) : text[i] = "{"}
CloseBraces == {i \in 1..Len(text) : text[i] = "}"}

\* what the span from the first "{" to the last "}" of text parses to
BraceSpanValue ==
    IF OpenBraces = {} \/ CloseBraces = {} THEN None
    ELSE LET a == CHOOSE i \in OpenBraces : \A j \in OpenBraces : i <= j
             b == CHOOSE i \in CloseBraces : \A j \in CloseBraces : j <= i
         IN  IF b < a THEN None
             ELSE LET sub == json_loads(SubSeq(text, a, b))
                  IN  IF sub.exc THEN None ELSE sub.val

\* text is ObjA1 with brace-free text before and after it
WrapsObjA1 ==
    \E i \in 1..Len(text) :
        /\ i + Len(ObjA1) - 1 <= Len(text)
        /\ SubSeq(text, i, i + Len(ObjA1) - 1) = ObjA1
        /\ \A j \in OpenBraces \cup CloseBraces : i <= j /\ j <= i + Len(ObjA1) - 1

\* C2: when the whole text does not parse, the extractor returns the parse of
\* the span from the first "{" to the last "}" and Failure when there is no
\* such span or it does not parse; an object wrapped in brace-free text is
\* recovered exactly, and a text without braces or a truncated object fails.
C2_BraceSpan ==
    pc = "done" /\ json_loads(text).exc =>
        /\ parsed = Return(BraceSpanValue)
        /\ WrapsObjA1 => parsed.val = ObjA1Value
        /\ OpenBraces = {} \/ CloseBraces = {} => parsed.val = None
        /\ text = <<"{", "\"", "a", "\"", ":", "1">> => parsed.val = None

C2_Witness ==
    /\ pc = "done"
    /\ text = <<"x">> \o ObjA1 \o <<"x">>
    /\ json_loads(text).exc
    /\ parsed = Return(ObjA1Value)

\* C3: the extractor never raises: a parse error of the whole text and any
\* error of the brace fallback end in the Failure result.
C3_NeverRaises ==
    pc = "done" =>
        /\ ~parsed.exc
        /\ json_loads(text).exc /\ BraceFallback(text).exc => parsed.val = None

C3_Witness ==
    /\ pc = "done"
    /\ json_loads(text).exc
    /\ index(text, "{").exc
    /\ parsed = Return(None)

\* the patterns of a list that match the lower-cased clause
Matching(kws) == {i \in 1..Len(kws) : re_search(kws[i], lower(clause))}

Reversed(q) == [i \in 1..Len(q) |-> q[Len(q) + 1 - i]]

\* C4: the rule score is min(100, 40*H + 15*M) for H matching high and M
\* matching medium patterns, lies in [0,100], is 0 when nothing matches,
\* does not depend on the order of the pattern lists, and is a function of
\* the clause text alone.
C4_RuleScore ==
    pc = "done" =>
        LET H == Cardinality(Matching(RISK_KEYWORDS.high))
            M == Cardinality(Matching(RISK_KEYWORDS.medium))
            sum == 40 * H + 15 * M
        IN  /\ rule_score = FromInt(IF sum > 100 THEN 100 ELSE sum)
            /\ FGe(rule_score, FromInt(0)) /\ FGe(FromInt(100), rule_score)
            /\ H = 0 /\ M = 0 => rule_score = FromInt(0)
            /\ rule_score = FromInt(ScoreWith([high |-> Reversed(RISK_KEYWORDS.high),
                                               medium |-> Reversed(RISK_KEYWORDS.medium)],
                                              clause))

C4_Witness ==
    /\ pc = "done"
    /\ Cardinality(Matching(RISK_KEYWORDS.high)) = 3
    /\ clause # lower(clause)
    /\ rule_score = FromInt(100)

\* the weight of the call, in tenths
WeightUsed == IF w_llm = <<>> THEN 6 ELSE w_llm[1]

\* w*llm + (1 - w)*rule, in tenths, for numbers
Blend == (WeightUsed * llm_score.v + (10 - WeightUsed) * rule_score.v) \div 10

\* C5: combined_score returns the weighted blend clamped into [0,100]
\* (weight 0.6 when omitted) and its result is always within [0,100],
\* also for scores below 0 or above 100.
C5_Combined ==
    pc = "done" =>
        /\ ~score.nan /\ 0 <= score.v /\ score.v <= 1000
        /\ ~llm_score.nan =>
              score.v = IF Blend < 0 THEN 0 ELSE IF Blend > 1000 THEN 1000 ELSE Blend

C5_Witness ==
    /\ pc = "done"
    /\ llm_score = FromInt(120)
    /\ rule_score = FromInt(120)
    /\ w_llm = <<>>
    /\ score = FromInt(100)

\* C9 as stated: with the default weight and a rule score r in [0,100], every
\* model score gives a result between 0.4*r and 60 + 0.4*r.
C9_FloorCeiling ==
    pc = "done" /\ w_llm = <<>> /\ 0 <= rule_score.v /\ rule_score.v <= 1000 =>
        /\ ~score.nan
        /\ 4 * rule_score.v <= 10 * score.v
        /\ 10 * score.v <= 6000 + 4 * rule_score.v

\* C9, amended: the same bounds for every model score in [0,100].
C9_FloorCeilingInRange ==
    pc = "done" /\ w_llm = <<>> /\ 0 <= rule_score.v /\ rule_score.v <= 1000
                /\ ~llm_score.nan /\ 0 <= llm_score.v /\ llm_score.v <= 1000 =>
        /\ ~score.nan
        /\ 4 * rule_score.v <= 10 * score.v
        /\ 10 * score.v <= 6000 + 4 * rule_score.v

C9_Witness ==
    /\ pc = "done"
    /\ w_llm = <<>>
    /\ llm_score = FromInt(0)
    /\ rule_score = FromInt(100)
    /\ score = FromInt(40)

\* the clauses of the parsed mapping, as the loop sees them
ParsedClauses == iterate(dict_get(parsed.val, K_clauses, JArr(<<>>)).val).items

\* C6: the score emitted for each clause is the composite score
\* combined_score(model estimate, rule_score_for_clause(original)), within
\* [0,100].
C6_CompositeEmitted ==
    pc = "done" /\ path = "normal" =>
        \A i \in 1..Len(out.clauses) :
            LET c == out.clauses[i]
                estimate == clause_llm_score(ParsedClauses[i]).f
            IN  /\ c.score = combined_score(estimate, rule_score_for_clause(c.original.s),
                                            DefaultWeight)
                /\ FGe(c.score, FromInt(0)) /\ FGe(FromInt(100), c.score)

WellFormedApartFromEstimates ==
    /\ parsed.val.kind = "obj"
    /\ Truthy(parsed.val)
    /\ dict_get(parsed.val, K_clauses, JArr(<<>>)).val.kind = "arr"
    /\ \A i \in 1..Len(ParsedClauses) : ParsedClauses[i].kind = "obj"
    /\ ~pyfloat(dict_get(parsed.val, K_overall_risk_score, JNum(50)).val).exc

\* the clause's llm_score is missing, null or not convertible to a number
EstimateMissingOrInvalid(c) ==
    LET v == dict_get(c, K_llm_score, None).val
    IN  v = None \/ pyfloat(v).exc

\* C8: a clause with a missing, null or non-numeric llm_score gets the
\* default 50.0, and the other clauses and the summary are still produced.
C8_DefaultSubstituted ==
    pc = "done" /\ upstream = "ok" /\ WellFormedApartFromEstimates =>
        /\ path = "normal"
        /\ Len(out.clauses) = Len(ParsedClauses)
        /\ \A i \in 1..Len(out.clauses) :
              EstimateMissingOrInvalid(ParsedClauses[i]) =>
                  out.clauses[i].score = FromInt(50)

\* C10: summarize_document returns a record with the five keys; it returns
\* a record without the model's clauses exactly when extraction failed or an
\* upstream call raised, and otherwise one clause record per clause of the
\* extracted mapping, in order.
C10_Returns ==
    pc = "done" =>
        /\ DOMAIN out = {"title", "summary", "overall_risk_score", "rag_corpus_name",
                         "clauses"}
        /\ path \in {"fallback", "except"} <=>
              upstream # "ok" \/ parsed.val = None
        /\ path \in {"fallback", "except"} =>
              out.clauses = <<>> /\ out.overall_risk_score = FromInt(50)
        /\ path = "normal" =>
              /\ Len(out.clauses) = Len(ParsedClauses)
              /\ \A i \in 1..Len(out.clauses) :
                    out.clauses[i].original
                        = dict_get(ParsedClauses[i], K_original, JStr(<<>>)).val

====
